---- MODULE Spec2Model ----
(***************************************************************************)
(* Property classification and graph materialization pipeline.             *)
(*                                                                         *)
(* Four specifications share this module:                                  *)
(*   SpecRatio  the pure classifier PropertyType.from_unique_ratio         *)
(*   SpecEDA    DataExtractor + PropertyAnalyzer over an entity store      *)
(*   SpecMat    MaterializedPropertyProjection.create/delete_property_nodes*)
(*   SpecView   the named graph views and the analytics requests           *)
(* Each specification leaves the variables of the others at their idle     *)
(* values.                                                                 *)
(***************************************************************************)
EXTENDS Integers, Sequences, FiniteSets, TLC

VARIABLES
    \* ---- SpecRatio
    unique_count,      \* distinct non-null values handed to the classifier
    total_nodes,       \* population size handed to the classifier
    prop_type,         \* result of from_unique_ratio, "" before the call
    \* ---- SpecEDA
    population,        \* the label's entities: sequence of attribute bags
    limit,             \* Optional[int] argument, {} is None, {n} is n
    sample_size,       \* Optional[int] argument, {} is None, {n} is n
    total_count,       \* get_node_count(label) as seen by the extractor
    query_shape,       \* which of the three extraction queries was built
    records,           \* the element ids the extraction returned
    summary,           \* the classification table of the last analysis
    eda_op,            \* the last EDA operation
    \* ---- SpecMat / SpecView (the graph store and the engine catalog)
    source,            \* entity id -> attribute bag of the source label
    pnodes,            \* the nodes carrying property_node_label
    rels,              \* the relationships of relationship_type
    properties_to_project, \* PropertyProjectionConfig.properties_to_project
    catalog,           \* the analytics engine's named graph views
    op,                \* the last operation of the projection package
    outcome,           \* what that operation returned or raised
    runs,              \* consecutive create_property_nodes runs that returned
                       \* since the entities, the config or the graph changed
    archive,           \* the results file written by save_analysis_results
    loaded,            \* what load_analysis_results returned
    discovery_limit,   \* sample_limit of the last key discovery
    discovered_keys,   \* the keys the last key discovery returned
    identifiers,       \* the last get_identifiers call and its list
    categorical,       \* the last get_categorical_properties call and its list
    \* ---- the analyzer's monitor and the requests of the last operation
    enabled,           \* PerformanceMonitor.enabled
    metrics,           \* PerformanceMonitor.metrics, in start order
    requests,          \* the store requests the last operation issued
    raised,            \* the error the last EDA operation raised, or NoError
    batch_size         \* argument of the last create_property_nodes call

ratioVars == <<unique_count, total_nodes, prop_type>>
edaVars   == <<population, limit, sample_size, total_count, query_shape,
               records, summary, eda_op, archive, loaded,
               discovery_limit, discovered_keys, identifiers, categorical>>
projVars  == <<source, pnodes, rels, properties_to_project, catalog, op,
               outcome, runs>>
logVars   == <<enabled, metrics, requests, raised, batch_size>>
vars      == <<ratioVars, edaVars, projVars, logVars>>

(***************************************************************************)
(* Bounds of the model.                                                    *)
(***************************************************************************)
MaxTotal    == 20   \* largest population handed to the bare classifier
MaxNodes    == 3    \* largest label population in SpecEDA
NumEntities == 2    \* source entities in SpecMat and SpecView

(***************************************************************************)
(* Attribute values.  A value keeps its store type; s is its text.  Null   *)
(* stands for an absent key (the store holds no null properties).          *)
(***************************************************************************)
Null   == [t |-> "null", s |-> ""]
Int1   == [t |-> "int", s |-> "1"]
Str1   == [t |-> "str", s |-> "1"]
Str2   == [t |-> "str", s |-> "2"]
Keys   == {"a", "b"}
ValuesOf(k) == IF k = "a" THEN {Null, Int1, Str1} ELSE {Null, Str2}
Bags   == {bag \in [Keys -> {Null, Int1, Str1, Str2}] :
              \A k \in Keys : bag[k] \in ValuesOf(k)}

\* Cypher toString(): the text of the value, its type forgotten.
toString(v) == v.s

\* Optional[int]: {} is None, {n} the integer n.
None       == {}
Some(n)    == {n}
ValueOf(o) == CHOOSE n \in o : TRUE
\* Python truthiness of an Optional[int]: None and 0 are falsy.
Truthy(o)  == o /= None /\ o /= Some(0)

(***************************************************************************)
(* enums.py: PropertyType.from_unique_ratio.                               *)
(* A ratio is the float unique/total, kept as the pair it was divided from.*)
(* IEEE division is correctly rounded and monotone, so for counts below    *)
(* 2^50 the float comparisons against 1.0, 0.05 and 0.5 agree with the     *)
(* exact comparisons of the fractions.  den = 0 is the NaN of 0.0/0.0,     *)
(* which compares false with everything.                                   *)
(***************************************************************************)
UNIQUE             == "UNIQUE"
SEMI_UNIQUE        == "SEMI_UNIQUE"
CATEGORICAL        == "CATEGORICAL"
HIGHLY_CATEGORICAL == "HIGHLY_CATEGORICAL"
PropertyType == {UNIQUE, SEMI_UNIQUE, CATEGORICAL, HIGHLY_CATEGORICAL}

Ratio(n, d)      == [num |-> n, den |-> d]
IsNaN(r)         == r.den = 0
RatioEqOne(r)    == ~IsNaN(r) /\ r.num = r.den
\* r < 0.05, i.e. num/den < 5/100
RatioLt005(r)    == ~IsNaN(r) /\ 100 * r.num < 5 * r.den
\* r < 0.5, i.e. num/den < 5/10
RatioLt05(r)     == ~IsNaN(r) /\ 10 * r.num < 5 * r.den

\* mutant: the HIGHLY_CATEGORICAL threshold taken inclusively
from_unique_ratio_le(ratio) ==
    IF RatioEqOne(ratio) THEN UNIQUE
    ELSE IF ~IsNaN(ratio) /\ 100 * ratio.num <= 5 * ratio.den
         THEN HIGHLY_CATEGORICAL
    ELSE IF RatioLt05(ratio) THEN CATEGORICAL
    ELSE SEMI_UNIQUE

from_unique_ratio(ratio) ==
    IF RatioEqOne(ratio) THEN UNIQUE
    ELSE IF RatioLt005(ratio) THEN HIGHLY_CATEGORICAL
    ELSE IF RatioLt05(ratio) THEN CATEGORICAL
    ELSE SEMI_UNIQUE

(***************************************************************************)
(* Idle values: what a specification leaves the other components at.       *)
(***************************************************************************)
EmptyTable == [c \in {} |-> 0]

\* no selection made: no label, no list
NoSelection == [node_label |-> "", flag |-> FALSE, value |-> <<>>]

RatioIdle == unique_count = 0 /\ total_nodes = 0 /\ prop_type = ""
EdaIdle   == /\ population = <<>> /\ limit = None /\ sample_size = None
             /\ total_count = 0 /\ query_shape = "" /\ records = {}
             /\ summary = EmptyTable /\ eda_op = "idle"
             /\ archive = None /\ loaded = None
             /\ discovery_limit = 0 /\ discovered_keys = {}
             /\ identifiers = NoSelection /\ categorical = NoSelection
NoError   == [type |-> "", message |-> ""]
NoOutcome == [kind |-> "none", error |-> NoError, value |-> <<>>]
ProjIdle  == /\ source = <<>> /\ pnodes = {} /\ rels = {}
             /\ properties_to_project = <<>> /\ catalog = {}
             /\ op = "idle" /\ outcome = NoOutcome /\ runs = 0
\* the driver's error when the store cannot be reached
ServiceUnavailable ==
    [type |-> "ServiceUnavailable", message |-> "Unable to retrieve routing information"]

MonIdle   == /\ metrics = <<>> /\ requests = <<>> /\ raised = NoError
             /\ batch_size = 0
LogIdle   == enabled = FALSE /\ MonIdle

(***************************************************************************)
(* SpecRatio: the classifier applied to every pair of counts.              *)
(***************************************************************************)
InitRatio ==
    /\ total_nodes \in 0..MaxTotal
    /\ unique_count \in 0..total_nodes
    /\ prop_type = ""
    /\ EdaIdle /\ ProjIdle /\ LogIdle

\* prop_type = PropertyType.from_unique_ratio(unique_count / total_nodes);
\* a zero total reaches the classifier only as the NaN of the aggregate query.
Classify ==
    /\ prop_type = ""
    /\ prop_type' = from_unique_ratio(Ratio(unique_count, total_nodes))
    /\ UNCHANGED <<unique_count, total_nodes, edaVars, projVars, logVars>>

NextRatio == Classify
SpecRatio == InitRatio /\ [][NextRatio]_vars

\* C1: for total_count > 0 the type follows the top-down rule on
\* unique_count / total_count: ratio = 1 gives UNIQUE, else ratio < 0.05
\* gives HIGHLY_CATEGORICAL, else ratio < 0.5 gives CATEGORICAL, else
\* SEMI_UNIQUE; exactly 0.05 is CATEGORICAL, exactly 0.5 is SEMI_UNIQUE, and
\* every ratio gets exactly one of the four types.
C1_TopDownRule ==
    (prop_type /= "" /\ total_nodes > 0) =>
        /\ prop_type \in PropertyType
        /\ (prop_type = UNIQUE) <=> (unique_count = total_nodes)
        /\ (prop_type = HIGHLY_CATEGORICAL) <=>
               (unique_count /= total_nodes /\ 20 * unique_count < total_nodes)
        /\ (prop_type = CATEGORICAL) <=>
               (20 * unique_count >= total_nodes /\ 2 * unique_count < total_nodes)
        /\ (prop_type = SEMI_UNIQUE) <=>
               (2 * unique_count >= total_nodes /\ unique_count /= total_nodes)
        /\ (20 * unique_count = total_nodes) => (prop_type = CATEGORICAL)
        /\ (2 * unique_count = total_nodes) => (prop_type = SEMI_UNIQUE)

\* a classified ratio of exactly 0.05
C1_Witness ==
    /\ prop_type = CATEGORICAL
    /\ total_nodes > 0
    /\ 20 * unique_count = total_nodes

(***************************************************************************)
(* SpecEDA: extraction and the two profiling strategies.                   *)
(* The label's entities are population[1..n]; an entity's element id is    *)
(* its index.                                                              *)
(***************************************************************************)
TopN               == 10     \* .head(10) and LIMIT 10
DefaultSampleLimit == 1000   \* get_property_keys(label, sample_limit=1000)

ElemIdCol    == "_node_element_id"
ElementId(i) == [t |-> "elementId", s |-> ToString(i)]
Categoricals == {CATEGORICAL, HIGHLY_CATEGORICAL}

\* connection.py get_node_count: MATCH (n:label) RETURN count(n)
get_node_count == Len(population)

\* mutant: the sample branch taken when sample_size equals the population
build_extraction_query_le(total, lim, samp) ==
    IF Truthy(samp) /\ ValueOf(samp) <= total
    THEN [shape |-> "sample", n |-> ValueOf(samp)]
    ELSE IF Truthy(lim) /\ ValueOf(lim) < total
    THEN [shape |-> "limit", n |-> ValueOf(lim)]
    ELSE [shape |-> "all", n |-> total]

\* extractor.py _build_extraction_query: the query is kept as its shape and
\* the LIMIT it carries.  `if sample_size and ...` tests truthiness.
build_extraction_query(total, lim, samp) ==
    IF Truthy(samp) /\ ValueOf(samp) < total
    THEN [shape |-> "sample", n |-> ValueOf(samp)]
    ELSE IF Truthy(lim) /\ ValueOf(lim) < total
    THEN [shape |-> "limit", n |-> ValueOf(lim)]
    ELSE [shape |-> "all", n |-> total]

Min(x, y) == IF x < y THEN x ELSE y

\* The store's answers to an extraction query: the sets of element ids it may
\* return.  ORDER BY rand() LIMIT n is any n entities; LIMIT n without an
\* order is n entities in the store's unspecified iteration order.
RunExtraction(q) ==
    LET ids == 1..Len(population) IN
    IF q.shape = "all" THEN {ids}
    ELSE {R \in SUBSET ids : Cardinality(R) = Min(q.n, Len(population))}

\* extractor.py _execute_extraction + pd.DataFrame(records): one row per
\* returned entity, one column per key some row holds, plus the element id.
Columns(R) ==
    IF R = {} THEN {}
    ELSE {k \in Keys : \E r \in R : population[r][k] /= Null} \cup {ElemIdCol}
Cell(r, col) == IF col = ElemIdCol THEN ElementId(r) ELSE population[r][col]

\* df[column].value_counts() / WITH value, count(*): non-null value -> count
ValueCounts(R, col) ==
    LET vals == {Cell(r, col) : r \in R} \ {Null}
    IN  [v \in vals |-> Cardinality({r \in R : Cell(r, col) = v})]

\* sort_values(ascending=False) / ORDER BY count DESC: the (value, count)
\* pairs by non-increasing count, equal counts in some order
RECURSIVE ByCountDesc(_)
ByCountDesc(counts) ==
    IF DOMAIN counts = {} THEN <<>>
    ELSE LET m == CHOOSE v \in DOMAIN counts :
                      \A w \in DOMAIN counts : counts[v] >= counts[w]
         IN  <<[value |-> m, count |-> counts[m]]>>
                 \o ByCountDesc([w \in (DOMAIN counts) \ {m} |-> counts[w]])

\* mutant: the first n values as they come, not the n most frequent
HeadOf_unsorted(counts, n) ==
    LET RECURSIVE AsTheyCome(_)
        AsTheyCome(S) ==
            IF S = {} THEN <<>>
            ELSE LET m == CHOOSE v \in S : TRUE
                 IN  <<[value |-> m, count |-> counts[m]]>> \o AsTheyCome(S \ {m})
        all == AsTheyCome(DOMAIN counts)
    IN  SubSeq(all, 1, Min(n, Len(all)))

\* .head(n).to_dict() / ORDER BY count DESC LIMIT n into a dict: the n most
\* frequent values with their counts, in that order
HeadOf(counts, n) ==
    LET all == ByCountDesc(counts)
    IN  SubSeq(all, 1, Min(n, Len(all)))

\* mutant: the rows counted are those holding a value
analyze_column_count(R, col) ==
    LET uniq  == Cardinality({Cell(r, col) : r \in R} \ {Null})
        total == Cardinality({r \in R : Cell(r, col) /= Null})
        ratio == Ratio(uniq, total)
        type  == from_unique_ratio(ratio)
    IN  [ unique_values |-> uniq,
          total_values  |-> total,
          unique_ratio  |-> ratio,
          type          |-> type,
          null_count    |-> Cardinality({r \in R : Cell(r, col) = Null}),
          sample_categorical_values |->
              IF type \in Categoricals
              THEN {HeadOf(ValueCounts(R, col), TopN)} ELSE None ]

\* property_analyzer.py analyze_dataframe, the body of the column loop
analyze_column(R, col) ==
    LET uniq  == Cardinality({Cell(r, col) : r \in R} \ {Null})  \* nunique()
        total == Cardinality(R)                                  \* len(df)
        ratio == Ratio(uniq, total)
        type  == from_unique_ratio(ratio)
    IN  [ unique_values |-> uniq,
          total_values  |-> total,
          unique_ratio  |-> ratio,
          type          |-> type,
          null_count    |-> Cardinality({r \in R : Cell(r, col) = Null}),
          sample_categorical_values |->
              IF type \in Categoricals
              THEN {HeadOf(ValueCounts(R, col), TopN)} ELSE None ]

\* property_analyzer.py analyze_dataframe
analyze_dataframe(R) ==
    IF R = {} THEN EmptyTable                       \* if df.empty: return {}
    ELSE [col \in Columns(R) |-> analyze_column(R, col)]

\* mutant: null_count taken as total minus the number of distinct values
get_property_stats_cypher_distinct(prop_key) ==
    LET all   == 1..Len(population)
        total == Cardinality(all)
        uniq  == Cardinality({population[r][prop_key] : r \in all} \ {Null})
        ratio == Ratio(uniq, total)
        type  == from_unique_ratio(ratio)
    IN  [ unique_values |-> uniq,
          total_values  |-> total,
          unique_ratio  |-> ratio,
          type          |-> type,
          null_count    |-> total - uniq,
          sample_categorical_values |->
              IF type \in Categoricals
              THEN {HeadOf(ValueCounts(all, prop_key), TopN)} ELSE None ]

\* property_analyzer.py get_property_stats_cypher: the counting query over
\* the whole label, then the top-values query for categorical types.
get_property_stats_cypher(prop_key) ==
    LET all   == 1..Len(population)
        total == Cardinality(all)                               \* count(n)
        uniq  == Cardinality({population[r][prop_key] : r \in all} \ {Null})
        nonnull == Cardinality({r \in all : population[r][prop_key] /= Null})
        ratio == Ratio(uniq, total)       \* toFloat(unique)/toFloat(total)
        type  == from_unique_ratio(ratio)
    IN  [ unique_values |-> uniq,
          total_values  |-> total,
          unique_ratio  |-> ratio,
          type          |-> type,
          null_count    |-> total - nonnull,  \* count(n) - count(n.key)
          sample_categorical_values |->
              IF type \in Categoricals
              THEN {HeadOf(ValueCounts(all, prop_key), TopN)} ELSE None ]

\* mutant: the keys of the schema, held by some entity or not
get_property_keys_schema(sample_limit) == {Keys}

\* connection.py get_property_keys, WITH n LIMIT sample_limit: the sets of
\* entities the store may hand on, in its own iteration order
Prefixes(sample_limit) ==
    IF sample_limit >= Len(population) THEN {1..Len(population)}
    ELSE {P \in SUBSET (1..Len(population)) : Cardinality(P) = sample_limit}

\* UNWIND keys(n) AS key RETURN DISTINCT key, over the entities R
KeysHeld(R) == {k \in Keys : \E r \in R : population[r][k] /= Null}

\* connection.py get_property_keys: the keys of the first sample_limit
\* entities in the store's iteration order; the result for each such prefix.
get_property_keys(sample_limit) ==
    {KeysHeld(R) : R \in Prefixes(sample_limit)}

OptArgs == {None} \cup {Some(n) : n \in 0..(MaxNodes + 1)}

\* Element ids carry no meaning (every selection below is by subset), so of
\* the populations that differ only in the order of their entities one is
\* kept: the one listed by non-decreasing bag rank.
BagRank(bag) ==
    (IF bag["a"] = Null THEN 0 ELSE IF bag["a"] = Int1 THEN 2 ELSE 4)
  + (IF bag["b"] = Null THEN 0 ELSE 1)
Populations ==
    {pop \in UNION {[1..n -> Bags] : n \in 0..MaxNodes} :
        \A i \in 1..(Len(pop) - 1) : BagRank(pop[i]) <= BagRank(pop[i + 1])}

InitEDA ==
    /\ population \in Populations
    /\ limit = None /\ sample_size = None
    /\ total_count = 0 /\ query_shape = "" /\ records = {}
    /\ summary = EmptyTable /\ eda_op = "idle"
    /\ archive = None /\ loaded = None
    /\ discovery_limit = 0 /\ discovered_keys = {}
    /\ identifiers = NoSelection /\ categorical = NoSelection
    /\ RatioIdle /\ ProjIdle
    /\ enabled \in BOOLEAN /\ MonIdle

(***************************************************************************)
(* The analyzer's monitor and the store requests of one operation.  A      *)
(* trace is what an operation has done so far: the monitor's metrics, the  *)
(* requests issued, and whether the last request was refused by the store. *)
(* failAt is the number of the refused request (0: none).                  *)
(***************************************************************************)
Trace(ms) == [metrics |-> ms, requests |-> <<>>, failed |-> FALSE]

\* performance.py PerformanceMonitor.start; the metric it returns is
\* Started (its place in the list), 0 for None
start(t, name) ==
    IF ~enabled THEN t
    ELSE [t EXCEPT !.metrics = Append(@, [name |-> name, stopped |-> FALSE])]
Started(t) == IF ~enabled THEN 0 ELSE Len(t.metrics)

\* performance.py PerformanceMonitor.stop and PerformanceMetric.stop:
\* the duration is set; stop(None) stops current_metric, the last started
stop(t, metric) ==
    IF ~enabled THEN t
    ELSE LET h == IF metric = 0 THEN Len(t.metrics) ELSE metric
         IN  IF h = 0 THEN t
             ELSE [t EXCEPT !.metrics[h].stopped = TRUE]

\* session.run(query): the request is issued and answered or refused
Issue(t, kind, key, failAt) ==
    [t EXCEPT !.requests = Append(@, [kind |-> kind, key |-> key]),
              !.failed = (Len(t.requests) + 1 = failAt)]

\* analyzer.py get_node_labels: try / finally around connection.get_node_labels
get_node_labels_trace(t, failAt) ==
    LET s == start(t, "get_node_labels")
    IN  stop(Issue(s, "labels", "", failAt), Started(s))

\* analyzer.py get_node_count: try / finally around connection.get_node_count
get_node_count_trace(t, failAt) ==
    LET s == start(t, "get_node_count")
    IN  stop(Issue(s, "count", "", failAt), Started(s))

\* analyzer.py extract_nodes_to_dataframe: count, then the extraction
\* query, inside try / finally
extract_trace(t, failAt) ==
    LET s == start(t, "extract_nodes_to_dataframe")
        c == get_node_count_trace(s, failAt)
        e == IF c.failed THEN c ELSE Issue(c, "extract", "", failAt)
    IN  stop(e, Started(s))

\* analyzer.py get_property_summary: extract_nodes_to_dataframe and
\* analyze_dataframe inside try / finally
summary_trace(t, failAt) ==
    LET s == start(t, "get_property_summary")
    IN  stop(extract_trace(s, failAt), Started(s))

\* mutant: the top-values request issued whatever the type
stats_trace_always(t, prop_key, type, monitored, failAt) ==
    Issue(Issue(t, "stats", prop_key, failAt), "top_values", prop_key, failAt)

\* property_analyzer.py get_property_stats_cypher: the stats request, then
\* the top-values request for the two categorical types only; with a
\* performance_monitor argument each request has its metric, stopped in a
\* finally clause.  type is the type the stats request's answer yields.
stats_trace(t, prop_key, type, monitored, failAt) ==
    LET s1 == IF monitored THEN start(t, "cypher_stats_query") ELSE t
        h1 == IF monitored THEN Started(s1) ELSE 0
        q1 == Issue(s1, "stats", prop_key, failAt)
        r1 == IF h1 /= 0 THEN stop(q1, h1) ELSE q1
        s2 == IF monitored THEN start(r1, "cypher_categorical_query") ELSE r1
        h2 == IF monitored THEN Started(s2) ELSE 0
        q2 == Issue(s2, "top_values", prop_key, failAt)
        r2 == IF h2 /= 0 THEN stop(q2, h2) ELSE q2
    IN  IF r1.failed THEN r1
        ELSE IF type \in Categoricals THEN r2
        ELSE r1

\* analyzer.py get_property_summary_fast, the loop from key i on: the
\* analyze_property_cypher metric is stopped after the call, outside any
\* finally clause
RECURSIVE FastLoop(_, _, _, _, _)
FastLoop(t, property_keys, profiles, i, failAt) ==
    IF i > Len(property_keys) THEN t
    ELSE LET s == start(t, "analyze_property_cypher")
             q == stats_trace(s, property_keys[i],
                      profiles[property_keys[i]].type, FALSE, failAt)
         IN  IF q.failed THEN q
             ELSE FastLoop(stop(q, Started(s)), property_keys, profiles,
                           i + 1, failAt)

\* analyzer.py get_property_summary_fast: only the outer metric is stopped
\* in a finally clause; profiles are what get_property_stats_cypher
\* returns for each key when its requests are answered
fast_trace(t, property_keys, profiles, failAt) ==
    LET s == start(t, "get_property_summary_fast")
        p == start(s, "get_property_keys")
        k == Issue(p, "keys", "", failAt)
        c == get_node_count_trace(stop(k, Started(p)), failAt)
        body == IF k.failed THEN k
                ELSE IF c.failed THEN c
                ELSE FastLoop(c, property_keys, profiles, 1, failAt)
    IN  stop(body, Started(s))

\* The most requests one operation issues: keys, count, two per key.
MaxRequests == 2 + 2 * Cardinality(Keys)
FailPoints == 0..MaxRequests

\* The orders in which RETURN DISTINCT key may list a set of keys.
Orders(S) ==
    {o \in [1..Cardinality(S) -> S] : \A k \in S : \E i \in DOMAIN o : o[i] = k}

ErrorOf(t) == IF t.failed THEN ServiceUnavailable ELSE NoError

\* analyzer.py get_node_labels
GetNodeLabels ==
    /\ eda_op = "idle"
    /\ \E failAt \in FailPoints :
        \E t \in {get_node_labels_trace(Trace(metrics), failAt)} :
        /\ failAt = 0 \/ t.failed
        /\ eda_op' = "get_node_labels"
        /\ metrics' = t.metrics
        /\ requests' = t.requests
        /\ raised' = ErrorOf(t)
        /\ UNCHANGED <<population, discovery_limit, discovered_keys,
                       identifiers, categorical,
                       limit, sample_size, total_count,
                       query_shape, records, summary, archive, loaded,
                       enabled, batch_size, ratioVars, projVars>>

\* analyzer.py get_node_count
GetNodeCount ==
    /\ eda_op = "idle"
    /\ \E failAt \in FailPoints :
        \E t \in {get_node_count_trace(Trace(metrics), failAt)} :
        /\ failAt = 0 \/ t.failed
        /\ eda_op' = "get_node_count"
        /\ total_count' = IF t.failed THEN 0 ELSE get_node_count
        /\ metrics' = t.metrics
        /\ requests' = t.requests
        /\ raised' = ErrorOf(t)
        /\ UNCHANGED <<population, discovery_limit, discovered_keys,
                       identifiers, categorical,
                       limit, sample_size, query_shape, records,
                       summary, archive, loaded, enabled, batch_size,
                       ratioVars, projVars>>

\* analyzer.py extract_nodes_to_dataframe called through the analyzer
\* operation op, whose trace is t: count, build the query, extract.  The
\* table is the records extracted; analyze tells whether it is profiled.
ExtractCall(op_name, lim, samp, t, analyze) ==
    LET total == get_node_count
        query == build_extraction_query(total, lim, samp)
        counted == Len(t.requests) > 1 \/ ~t.failed
    IN  \E R \in RunExtraction(query) :
          /\ limit' = lim
          /\ sample_size' = samp
          /\ total_count' = IF counted THEN total ELSE 0
          /\ query_shape' = IF counted THEN query.shape ELSE ""
          /\ records' = IF t.failed THEN {} ELSE R
          /\ summary' = IF t.failed \/ ~analyze THEN EmptyTable
                        ELSE analyze_dataframe(R)
          /\ eda_op' = op_name
          /\ metrics' = t.metrics
          /\ requests' = t.requests
          /\ raised' = ErrorOf(t)
          /\ UNCHANGED <<population, discovery_limit, discovered_keys,
                       identifiers, categorical,
                       archive, loaded, enabled, batch_size,
                         ratioVars, projVars>>

\* analyzer.py extract_nodes_to_dataframe
ExtractNodesToDataframe ==
    /\ eda_op = "idle"
    /\ \E lim \in OptArgs, samp \in OptArgs, failAt \in FailPoints :
        \E t \in {extract_trace(Trace(metrics), failAt)} :
        /\ failAt = 0 \/ t.failed
        /\ ExtractCall("extract_nodes_to_dataframe", lim, samp, t, FALSE)

\* analyzer.py get_property_summary: count, extract, analyze locally.
\* The analyzer keeps no result between calls and never writes the store, so
\* a behaviour makes one call on its population.
SummaryCall(lim, samp, faults) ==
    /\ eda_op = "idle"
    /\ \E failAt \in faults :
        \E t \in {summary_trace(Trace(metrics), failAt)} :
        /\ failAt = 0 \/ t.failed
        /\ ExtractCall("get_property_summary", lim, samp, t, TRUE)

GetPropertySummary ==
    /\ eda_op = "idle"
    /\ \E lim \in OptArgs, samp \in OptArgs : SummaryCall(lim, samp, FailPoints)

\* get_property_summary(label): limit and sample_size at their default
\* None, every request answered
GetPropertySummaryAll == SummaryCall(None, None, {0})

\* analyzer.py get_property_summary_fast: discover keys, count, one
\* aggregate profile per key; faults are the refusals the store may make
FastCall(faults) ==
    /\ eda_op = "idle"
    /\ \E property_keys \in get_property_keys(DefaultSampleLimit) :
      \E profiles \in {[k \in property_keys |-> get_property_stats_cypher(k)]} :
      \E order \in Orders(property_keys), failAt \in faults :
        \E t \in {fast_trace(Trace(metrics), order, profiles, failAt)} :
        /\ failAt = 0 \/ t.failed
        /\ limit' = None
        /\ sample_size' = None
        /\ total_count' = IF Len(t.requests) > 2 \/ ~t.failed
                          THEN get_node_count ELSE 0
        /\ query_shape' = ""
        /\ records' = {}
        /\ summary' = IF t.failed THEN EmptyTable ELSE profiles
        /\ eda_op' = "get_property_summary_fast"
        /\ discovery_limit' = DefaultSampleLimit
        /\ discovered_keys' = IF Len(t.requests) > 1 \/ ~t.failed
                            THEN property_keys ELSE {}
        /\ metrics' = t.metrics
        /\ requests' = t.requests
        /\ raised' = ErrorOf(t)
        /\ UNCHANGED <<population, archive, loaded, identifiers, categorical,
                       enabled, batch_size,
                       ratioVars, projVars>>

\* property_analyzer.py get_property_stats_cypher called for one key of the
\* caller's choosing, with or without the performance_monitor argument;
\* the profile is kept under that key
GetPropertyStatsCypher ==
    /\ eda_op = "idle"
    /\ \E prop_key \in Keys, monitored \in BOOLEAN, failAt \in FailPoints :
        \E t \in {stats_trace(Trace(metrics), prop_key,
                     get_property_stats_cypher(prop_key).type,
                     monitored, failAt)} :
        /\ failAt = 0 \/ t.failed
        /\ limit' = None
        /\ sample_size' = None
        /\ total_count' = get_node_count
        /\ query_shape' = ""
        /\ records' = {}
        /\ summary' = IF t.failed THEN EmptyTable
                      ELSE [k \in {prop_key} |-> get_property_stats_cypher(k)]
        /\ eda_op' = "get_property_stats_cypher"
        /\ metrics' = t.metrics
        /\ requests' = t.requests
        /\ raised' = ErrorOf(t)
        /\ UNCHANGED <<population, discovery_limit, discovered_keys,
                       identifiers, categorical,
                       archive, loaded, enabled, batch_size,
                       ratioVars, projVars>>

GetPropertySummaryFast == FastCall(FailPoints)

\* the sample_limit arguments of the callers of get_property_keys
SampleLimits == (0..MaxNodes) \cup {DefaultSampleLimit}

\* connection.py get_property_keys called on the connection: no metric
GetPropertyKeys ==
    /\ eda_op = "idle"
    /\ \E lim \in SampleLimits, failAt \in {0, 1} :
        \E found \in get_property_keys(lim) :
        \E t \in {Issue(Trace(metrics), "keys", "", failAt)} :
        /\ discovery_limit' = lim
        /\ discovered_keys' = IF t.failed THEN {} ELSE found
        /\ eda_op' = "get_property_keys"
        /\ requests' = t.requests
        /\ raised' = ErrorOf(t)
        /\ UNCHANGED <<population, limit, sample_size, total_count,
                       query_shape, records, summary, archive, loaded,
                       identifiers, categorical,
                       enabled, metrics, batch_size, ratioVars, projVars>>

\* get_property_summary_fast(label), every request answered
GetPropertySummaryFastAll == FastCall({0})

NextEDA ==
    \/ GetPropertyKeys
    \/ GetNodeLabels
    \/ GetNodeCount
    \/ ExtractNodesToDataframe
    \/ GetPropertySummary
    \/ GetPropertySummaryFast
    \/ GetPropertyStatsCypher
SpecEDA == InitEDA /\ [][NextEDA]_vars

\* The entities a profile of the last analysis is about.
Considered == IF eda_op = "get_property_summary" THEN records
              ELSE 1..Len(population)

\* C6: every profile of either strategy has 0 <= unique_values <=
\* total_values, and null_count plus the number of considered entities
\* holding a non-null value equals total_values.
C6_CountsConsistent ==
    \A col \in DOMAIN summary :
        LET p == summary[col]
            holders == {r \in Considered : Cell(r, col) /= Null}
        IN  /\ 0 <= p.unique_values
            /\ p.unique_values <= p.total_values
            /\ p.null_count + Cardinality(holders) = p.total_values

\* an aggregate profile and an extract profile with nulls and values
C6_Witness ==
    \E col \in DOMAIN summary :
        /\ summary[col].null_count > 0
        /\ summary[col].unique_values > 0
        /\ summary[col].unique_values < summary[col].total_values - summary[col].null_count
        /\ eda_op = "get_property_summary_fast"

\* C7: the extraction query shape is chosen by strict precedence: a given
\* sample size smaller than total_count selects a random subset of that
\* size whatever the limit; else a given limit smaller than total_count
\* selects the first `limit` entities; else the entire population.
C7_ShapePrecedence ==
    (eda_op = "get_property_summary" /\ raised = NoError) =>
        IF sample_size /= None /\ ValueOf(sample_size) < total_count
        THEN /\ query_shape = "sample"
             /\ Cardinality(records) = ValueOf(sample_size)
        ELSE IF limit /= None /\ ValueOf(limit) < total_count
        THEN /\ query_shape = "limit"
             /\ Cardinality(records) = ValueOf(limit)
        ELSE /\ query_shape = "all"
             /\ records = 1..total_count

\* C8 as claimed: a sample size >= total_count always selects the entire
\* population.
C8_WholePopulation ==
    (/\ eda_op = "get_property_summary"
     /\ raised = NoError
     /\ sample_size /= None
     /\ ValueOf(sample_size) >= total_count) =>
        /\ query_shape = "all"
        /\ records = 1..total_count

\* C8 amended: a sample size >= total_count never samples; the entire
\* population is selected unless a hard limit L with 0 < L < total_count is
\* given as well, and then L entities are selected by the limit query.
C8_NoSamplingFallback ==
    (/\ eda_op = "get_property_summary"
     /\ raised = NoError
     /\ sample_size /= None
     /\ ValueOf(sample_size) >= total_count) =>
        IF limit /= None /\ 0 < ValueOf(limit) /\ ValueOf(limit) < total_count
        THEN /\ query_shape = "limit"
             /\ Cardinality(records) = ValueOf(limit)
        ELSE /\ query_shape = "all"
             /\ records = 1..total_count

\* a sample size equal to a non-empty population, answered with all of it
C8_Witness ==
    /\ eda_op = "get_property_summary"
    /\ raised = NoError
    /\ sample_size = Some(total_count)
    /\ total_count > 0
    /\ query_shape = "all"
    /\ records = 1..total_count

(***************************************************************************)
(* The graph store of the projection package.                              *)
(* source[e] is the attribute bag of source entity e.  A property node is  *)
(* [name, value, copy] and a relationship [src, dst, copy]: copy tells     *)
(* apart nodes (relationships) the store holds with equal name and value   *)
(* (equal end points); a new one gets the smallest copy not in use.        *)
(***************************************************************************)
\* MATCH (source:source_label): the entities of the label
Entities == DOMAIN source

Returned(v) == [kind |-> "returned", error |-> NoError, value |-> v]
Raised(e)   == [kind |-> "raised", error |-> e, value |-> <<>>]

FreshCopy(used) == CHOOSE c \in 1..(Cardinality(used) + 1) : c \notin used

\* mutant: CREATE in place of MERGE for the property node
MergeNode_create(nodes, prop, text) ==
    LET used == {p.copy : p \in {x \in nodes : x.name = prop /\ x.value = text}}
    IN  {[name |-> prop, value |-> text, copy |-> FreshCopy(used)]}

\* MERGE (p:Property {name: prop, value: toString(propValue)}): the nodes
\* bound to p, the matching ones or else a new one.
MergeNode(nodes, prop, text) ==
    LET matching == {p \in nodes : p.name = prop /\ p.value = text}
    IN  IF matching /= {} THEN matching
        ELSE {[name |-> prop, value |-> text, copy |-> 1]}

\* mutant: CREATE in place of MERGE for the relationship
MergeRel_create(edges, e, p) ==
    LET used == {r.copy : r \in {x \in edges : x.src = e /\ x.dst = p}}
    IN  edges \cup {[src |-> e, dst |-> p, copy |-> FreshCopy(used)]}

\* MERGE (source)-[:HAS]->(p)
MergeRel(edges, e, p) ==
    IF \E r \in edges : r.src = e /\ r.dst = p THEN edges
    ELSE edges \cup {[src |-> e, dst |-> p, copy |-> 1]}

RECURSIVE MergeRels(_, _, _)
MergeRels(edges, e, bound) ==
    IF bound = {} THEN edges
    ELSE LET p == CHOOSE x \in bound : TRUE
         IN  MergeRels(MergeRel(edges, e, p), e, bound \ {p})

\* mutant: a row whose property node already exists gets no relationship
MergeRow_skip(g, prop, e) ==
    LET existed == \E p \in g.pnodes :
                       p.name = prop /\ p.value = toString(source[e][prop])
        bound == MergeNode(g.pnodes, prop, toString(source[e][prop]))
    IN  [ pnodes  |-> g.pnodes \cup bound,
          rels    |-> IF existed THEN g.rels ELSE MergeRels(g.rels, e, bound),
          touched |-> g.touched \cup bound,
          rows    |-> g.rows + Cardinality(bound) ]

\* mutant: the aggregates count what the row created only
MergeRow_created(g, prop, e) ==
    LET bound == MergeNode(g.pnodes, prop, toString(source[e][prop]))
    IN  [ pnodes  |-> g.pnodes \cup bound,
          rels    |-> MergeRels(g.rels, e, bound),
          touched |-> g.touched \cup (bound \ g.pnodes),
          rows    |-> g.rows + Cardinality({p \in bound :
                          ~\E r \in g.rels : r.src = e /\ r.dst = p}) ]

\* One row (source, propValue) of the write query through both MERGEs.
\* g carries the graph and the two aggregates of the RETURN.
MergeRow(g, prop, e) ==
    LET bound == MergeNode(g.pnodes, prop, toString(source[e][prop]))
    IN  [ pnodes  |-> g.pnodes \cup bound,
          rels    |-> MergeRels(g.rels, e, bound),
          touched |-> g.touched \cup bound,      \* count(DISTINCT p)
          rows    |-> g.rows + Cardinality(bound) ]  \* count(*)

\* The write query of one attribute: MATCH (source:label) WHERE
\* source.prop IS NOT NULL, each row merged in turn.
RECURSIVE MergeFrom(_, _, _)
MergeFrom(g, prop, e) ==
    IF e > Len(source) THEN g
    ELSE MergeFrom(IF source[e][prop] = Null THEN g ELSE MergeRow(g, prop, e),
                   prop, e + 1)

\* mutant: the write first removes the relationships of the attribute that
\* lead to a node of another value than the entity holds
WriteQuery_sync(nodes, edges, prop) ==
    MergeFrom([pnodes |-> nodes,
               rels |-> {r \in edges :
                           r.dst.name = prop =>
                               r.dst.value = toString(source[r.src][prop])},
               touched |-> {}, rows |-> 0],
              prop, 1)

WriteQuery(nodes, edges, prop) ==
    MergeFrom([pnodes |-> nodes, rels |-> edges, touched |-> {}, rows |-> 0],
              prop, 1)

\* materialized_projection.py create_property_nodes, the loop from
\* attribute i on.  failAt is the index of the attribute whose
\* execute_write is refused by the store (0: none); its transaction writes
\* nothing and the exception leaves the loop and the method.
RECURSIVE CreateLoop(_, _, _, _, _)
CreateLoop(nodes, edges, stats, i, failAt) ==
    IF i > Len(properties_to_project)
    THEN [pnodes |-> nodes, rels |-> edges, outcome |-> Returned(stats)]
    ELSE IF i = failAt
    THEN [pnodes |-> nodes, rels |-> edges, outcome |-> Raised(ServiceUnavailable)]
    ELSE LET w == WriteQuery(nodes, edges, properties_to_project[i])
         IN  CreateLoop(w.pnodes, w.rels,
                 [ properties_created |->
                       stats.properties_created + Cardinality(w.touched),
                   relationships_created |->
                       stats.relationships_created + w.rows ],
                 i + 1, failAt)

\* mutant: the delete restricted to the configured attributes
delete_query_scoped(nodes, edges) ==
    LET gone == {p \in nodes :
                    \E i \in 1..Len(properties_to_project) :
                        p.name = properties_to_project[i]}
    IN  [ pnodes  |-> nodes \ gone,
          rels    |-> {r \in edges : r.dst \notin gone},
          deleted |-> Cardinality(gone) ]

\* MATCH (p:Property) DETACH DELETE p RETURN count(p) AS deleted
delete_query(nodes, edges) ==
    [ pnodes  |-> {},
      rels    |-> {r \in edges : r.dst \notin nodes},
      deleted |-> Cardinality(nodes) ]

\* PropertyProjectionConfig.properties_to_project of the managers in use
Configs == {<<"a">>, <<"b", "a">>}

InitStore ==
    /\ source \in [1..NumEntities -> Bags]
    /\ pnodes = {}
    /\ rels = {}
    /\ properties_to_project \in Configs
    /\ catalog = {}
    /\ op = "idle" /\ outcome = NoOutcome /\ runs = 0
    /\ RatioIdle /\ EdaIdle /\ LogIdle

\* requests and batch_size describe a create_property_nodes call while it
\* is the last operation; any other operation of the package leaves them
\* empty.
ForgetWrites ==
    /\ requests' = <<>>
    /\ batch_size' = 0
    /\ UNCHANGED <<enabled, metrics, raised>>

\* Another client of the store sets or removes an attribute of an entity.
SetProperty ==
    \E e \in Entities, k \in Keys : \E v \in ValuesOf(k) :
        /\ source[e][k] /= v
        /\ source' = [source EXCEPT ![e][k] = v]
        /\ op' = "set_property"
        /\ outcome' = NoOutcome
        /\ runs' = 0
        /\ UNCHANGED <<pnodes, rels, properties_to_project, catalog,
                       ratioVars, edaVars>>
        /\ ForgetWrites

\* config.py PropertyProjectionConfig(...): a manager over another
\* attribute list; __post_init__ refuses an empty list.
Configure ==
    \E props \in Configs \cup {<<>>} :
        /\ props /= properties_to_project
        /\ op' = "configure"
        /\ runs' = 0
        /\ IF props = <<>>
           THEN /\ outcome' = Raised([type |-> "ValueError",
                      message |-> "properties_to_project must contain at least one property"])
                /\ UNCHANGED properties_to_project
           ELSE /\ outcome' = Returned(<<>>)
                /\ properties_to_project' = props
        /\ UNCHANGED <<source, pnodes, rels, catalog, ratioVars, edaVars>>
        /\ ForgetWrites

\* config.py batch_size, the default of the batch_size argument's callers
DefaultBatchSize == 10000
BatchSizes == {1, DefaultBatchSize}

\* The entities one execute_write of create_property_nodes matches: the
\* query has no SKIP, LIMIT or batching clause, so every entity holding
\* the attribute.
Matched(prop) == {e \in Entities : source[e][prop] /= Null}

\* The execute_write calls of create_property_nodes(batch_size): one per
\* attribute, up to and including the refused one; batch_size is not read.
WriteRequests(size, failAt) ==
    [i \in 1..(IF failAt = 0 THEN Len(properties_to_project) ELSE failAt) |->
        [kind |-> "write", key |-> properties_to_project[i],
         entities |-> Matched(properties_to_project[i])]]

\* materialized_projection.py create_property_nodes
CreatePropertyNodes ==
    \E size \in BatchSizes, failAt \in 0..Len(properties_to_project) :
        LET done == CreateLoop(pnodes, rels,
                        [properties_created |-> 0, relationships_created |-> 0],
                        1, failAt)
        IN  /\ pnodes' = done.pnodes
            /\ rels' = done.rels
            /\ op' = "create_property_nodes"
            /\ outcome' = done.outcome
            /\ runs' = IF done.outcome.kind = "returned"
                       THEN (IF runs < 2 THEN runs + 1 ELSE 2) ELSE 0
            /\ batch_size' = size
            /\ requests' = WriteRequests(size, failAt)
            /\ UNCHANGED <<source, properties_to_project, catalog,
                           enabled, metrics, raised, ratioVars, edaVars>>

\* materialized_projection.py delete_property_nodes
DeletePropertyNodes ==
    \E fail \in BOOLEAN :
        /\ op' = "delete_property_nodes"
        /\ runs' = 0
        /\ IF fail
           THEN /\ outcome' = Raised(ServiceUnavailable)
                /\ UNCHANGED <<pnodes, rels>>
           ELSE LET d == delete_query(pnodes, rels)
                IN  /\ pnodes' = d.pnodes
                    /\ rels' = d.rels
                    /\ outcome' = Returned(d.deleted)
        /\ UNCHANGED <<source, properties_to_project, catalog,
                       ratioVars, edaVars>>
        /\ ForgetWrites

NextMat == SetProperty \/ Configure \/ CreatePropertyNodes \/ DeletePropertyNodes
SpecMat == InitStore /\ [][NextMat]_vars

Configured == {properties_to_project[i] : i \in 1..Len(properties_to_project)}

\* A step of create_property_nodes that follows a run of it that returned,
\* with nothing done in between.
SecondRun == runs >= 1 /\ op' = "create_property_nodes"

\* C2: a second create_property_nodes run with the same configuration on
\* unchanged entities leaves the number of property nodes and of HAS
\* relationships as the first run left them, and raises nothing (the store
\* refusing a request is the only error a run can end with).
C2_Idempotent ==
    [][SecondRun =>
          /\ Cardinality(pnodes') = Cardinality(pnodes)
          /\ Cardinality(rels') = Cardinality(rels)
          /\ (outcome'.kind = "raised" => outcome'.error = ServiceUnavailable)]_vars

\* a second run has returned over a materialized graph
C2_Witness ==
    /\ runs = 2
    /\ op = "create_property_nodes"
    /\ outcome.kind = "returned"
    /\ Cardinality(pnodes) >= 2
    /\ Cardinality(rels) >= 2

\* The property nodes of attribute k with the text of value v.
NodesOf(k, v) == {p \in pnodes : p.name = k /\ p.value = toString(v)}
Linked(e, p)  == \E r \in rels : r.src = e /\ r.dst = p

\* C3: whatever create_property_nodes and delete_property_nodes calls were
\* made, there is at most one property node per (attribute, text of value)
\* and at most one HAS relationship per (entity, property node); after a
\* run that returned, entities holding the same normalized value of a
\* configured attribute are linked to the same single property node.
C3_MergeIdentity ==
    /\ \A p, q \in pnodes : (p.name = q.name /\ p.value = q.value) => p = q
    /\ \A r, t \in rels : (r.src = t.src /\ r.dst = t.dst) => r = t
    /\ (op = "create_property_nodes" /\ outcome.kind = "returned") =>
          \A k \in Configured : \A e1, e2 \in Entities :
              (/\ source[e1][k] /= Null
               /\ toString(source[e1][k]) = toString(source[e2][k])) =>
                  \E p \in pnodes :
                      /\ NodesOf(k, source[e1][k]) = {p}
                      /\ Linked(e1, p) /\ Linked(e2, p)

\* create, delete, create again: an integer 1 and a string "1" share a node
C3_Witness ==
    /\ op = "create_property_nodes" /\ outcome.kind = "returned"
    /\ runs = 2
    /\ \E e1, e2 \in Entities :
          /\ source[e1]["a"] = Int1 /\ source[e2]["a"] = Str1
          /\ \E p \in pnodes : Linked(e1, p) /\ Linked(e2, p)

\* C4: when create_property_nodes returns, every entity with a non-null
\* value v of a configured attribute A is linked to a property node
\* (A, toString(v)), and the run gives no relationship for A to an entity
\* whose value of A is null.
C4_Materialized ==
    [][(op' = "create_property_nodes" /\ outcome'.kind = "returned") =>
          \A k \in Configured : \A e \in Entities :
              IF source[e][k] /= Null
              THEN \E p \in pnodes' :
                      /\ p.name = k /\ p.value = toString(source[e][k])
                      /\ \E r \in rels' : r.src = e /\ r.dst = p
              ELSE {r \in rels' : r.src = e /\ r.dst.name = k}
                     = {r \in rels : r.src = e /\ r.dst.name = k}]_vars

\* a run returned with one entity linked for "a" and another holding no "a"
C4_Witness ==
    /\ op = "create_property_nodes" /\ outcome.kind = "returned"
    /\ \E e1, e2 \in Entities :
          /\ source[e1]["a"] /= Null
          /\ \E p \in pnodes : p.name = "a" /\ Linked(e1, p)
          /\ source[e2]["a"] = Null
          /\ ~\E p \in pnodes : p.name = "a" /\ Linked(e2, p)

\* C9: when delete_property_nodes returns, no property node and no HAS
\* relationship to one remains, whichever attribute or run created it; the
\* number returned is the number of property nodes there were, and the
\* entities keep their attributes.
C9_Teardown ==
    [][(op' = "delete_property_nodes" /\ outcome'.kind = "returned") =>
          /\ pnodes' = {}
          /\ ~\E r \in rels' : r.dst \in pnodes
          /\ rels' = {}
          /\ outcome'.value = Cardinality(pnodes)
          /\ source' = source]_vars

\* a manager configured for "a" alone has deleted the nodes of "a" and "b"
C9_Witness ==
    /\ op = "delete_property_nodes" /\ outcome.kind = "returned"
    /\ outcome.value = 2
    /\ properties_to_project = <<"a">>
    /\ pnodes = {} /\ rels = {}

(***************************************************************************)
(* SpecView: the analytics engine's catalog of named graph views, the two  *)
(* managers that declare and drop the configured view, and the analytics   *)
(* requests against it.  A view is the snapshot the engine took:           *)
(* [graphName, sourceNodes, propertyNodes, relationships].                 *)
(***************************************************************************)
graph_name      == "user-property-graph"
SimilarityLimit == 100    \* run_node_similarity: LIMIT 100
PagerankLimit   == 100    \* run_pagerank: LIMIT 100
CommunityLimit  == 1000   \* run_community_detection: LIMIT 1000

\* the engine's errors for a missing and for an occupied graph name
GraphNotFound ==
    [type |-> "ClientError",
     message |-> "Graph with name user-property-graph does not exist on database neo4j"]
GraphExists ==
    [type |-> "ClientError",
     message |-> "A graph with name user-property-graph already exists"]
UnknownAlgorithm ==
    [type |-> "ValueError", message |-> "Unknown algorithm"]

\* "does not exist" in str(e).lower(), over the messages of the model
DoesNotExistIn(e) == e.message = GraphNotFound.message

ViewsNamed(cat, name) == {v \in cat : v.graphName = name}
nodeCount(v)          == Cardinality(v.sourceNodes) + Cardinality(v.propertyNodes)
relationshipCount(v)  == Cardinality(v.relationships)

\* execute_query of CALL gds.graph.drop(name); refused: the store cannot be
\* reached for this request.
ExecDrop(cat, refused) ==
    IF refused THEN [catalog |-> cat, outcome |-> Raised(ServiceUnavailable)]
    ELSE IF ViewsNamed(cat, graph_name) = {}
    THEN [catalog |-> cat, outcome |-> Raised(GraphNotFound)]
    ELSE [catalog |-> cat \ ViewsNamed(cat, graph_name),
          outcome |-> Returned(<<[graphName |-> graph_name]>>)]

\* execute_query of CALL gds.graph.project(name, ...) YIELD ... RETURN ...
ExecProject(cat, view, refused) ==
    IF refused THEN [catalog |-> cat, outcome |-> Raised(ServiceUnavailable)]
    ELSE IF ViewsNamed(cat, view.graphName) /= {}
    THEN [catalog |-> cat, outcome |-> Raised(GraphExists)]
    ELSE [catalog |-> cat \cup {view},
          outcome |-> Returned(<<[graphName |-> view.graphName,
                                  nodeCount |-> nodeCount(view),
                                  relationshipCount |-> relationshipCount(view)]>>)]

\* projection_manager.py GDSPropertyProjectionManager.drop_projection
GDS_drop_projection(cat, refused) ==
    LET r == ExecDrop(cat, refused)
    IN  IF r.outcome.kind = "raised"
        THEN IF DoesNotExistIn(r.outcome.error)
             THEN [catalog |-> r.catalog, outcome |-> Returned(FALSE)]
             ELSE r                                             \* raise
        ELSE [catalog |-> r.catalog,
              outcome |-> Returned(r.outcome.value /= <<>>)]

\* materialized_projection.py MaterializedPropertyProjection.drop_projection
Mat_drop_projection(cat, refused) ==
    LET r == ExecDrop(cat, refused)
    IN  IF r.outcome.kind = "raised"
        THEN [catalog |-> r.catalog, outcome |-> Returned(FALSE)]  \* except Exception
        ELSE [catalog |-> r.catalog, outcome |-> Returned(TRUE)]

\* gds.graph.project(name, [source_label, property_node_label], {HAS}):
\* the native view of the stored graph
NativeView ==
    [graphName     |-> graph_name,
     sourceNodes   |-> Entities,
     propertyNodes |-> pnodes,
     relationships |-> rels]

\* gds.graph.project.cypher(name, nodeQuery, relationshipQuery): the source
\* entities, one virtual property node per (attribute, toString(value)) of
\* the configured attributes, one relationship per holder.
CypherView ==
    LET held == {<<e, k>> \in Entities \X Configured : source[e][k] /= Null}
        node(h) == [name |-> h[2], value |-> toString(source[h[1]][h[2]]),
                    copy |-> 1]
    IN  [graphName     |-> graph_name,
         sourceNodes   |-> Entities,
         propertyNodes |-> {node(h) : h \in held},
         relationships |-> {[src |-> h[1], dst |-> node(h), copy |-> 1] : h \in held}]

\* `if result: return result[0]` / `return {}`
FirstRow(r) ==
    IF r.outcome.kind = "returned"
    THEN [catalog |-> r.catalog,
          outcome |-> Returned(IF r.outcome.value /= <<>>
                               THEN r.outcome.value[1] ELSE <<>>)]
    ELSE r

\* materialized_projection.py create_gds_projection: drop, then project
create_gds_projection(cat, refusedDrop, refusedProject) ==
    LET d == Mat_drop_projection(cat, refusedDrop)
    IN  FirstRow(ExecProject(d.catalog, NativeView, refusedProject))

\* projection_manager.py create_cypher_projection: drop, then project
create_cypher_projection(cat, refusedDrop, refusedProject) ==
    LET d == GDS_drop_projection(cat, refusedDrop)
    IN  IF d.outcome.kind = "raised" THEN d
        ELSE FirstRow(ExecProject(d.catalog, CypherView, refusedProject))

InitView == InitStore

CreateGdsProjection ==
    \E refusedDrop \in BOOLEAN, refusedProject \in BOOLEAN :
        LET r == create_gds_projection(catalog, refusedDrop, refusedProject)
        IN  /\ catalog' = r.catalog
            /\ outcome' = r.outcome
            /\ op' = "create_gds_projection"
            /\ UNCHANGED <<source, pnodes, rels, properties_to_project, runs,
                           ratioVars, edaVars>>
            /\ ForgetWrites

CreateCypherProjection ==
    \E refusedDrop \in BOOLEAN, refusedProject \in BOOLEAN :
        LET r == create_cypher_projection(catalog, refusedDrop, refusedProject)
        IN  /\ catalog' = r.catalog
            /\ outcome' = r.outcome
            /\ op' = "create_cypher_projection"
            /\ UNCHANGED <<source, pnodes, rels, properties_to_project, runs,
                           ratioVars, edaVars>>
            /\ ForgetWrites

\* GDSPropertyProjectionManager.drop_projection called by the user
DropProjection ==
    \E refused \in BOOLEAN :
        LET r == GDS_drop_projection(catalog, refused)
        IN  /\ catalog' = r.catalog
            /\ outcome' = r.outcome
            /\ op' = "drop_projection"
            /\ UNCHANGED <<source, pnodes, rels, properties_to_project, runs,
                           ratioVars, edaVars>>
            /\ ForgetWrites

\* MaterializedPropertyProjection.drop_projection called by the user
MatDropProjection ==
    \E refused \in BOOLEAN :
        LET r == Mat_drop_projection(catalog, refused)
        IN  /\ catalog' = r.catalog
            /\ outcome' = r.outcome
            /\ op' = "mat_drop_projection"
            /\ UNCHANGED <<source, pnodes, rels, properties_to_project, runs,
                           ratioVars, edaVars>>
            /\ ForgetWrites

(***************************************************************************)
(* The analytics requests.  The engine's answers are computed from the     *)
(* view: Jaccard similarity of the relationship targets, the PageRank of a *)
(* node without incoming relationships (1 - dampingFactor, the same for    *)
(* every source entity, relationships running from source to property      *)
(* node), and the weakly connected component as community.  node_id is the *)
(* entity's index.                                                         *)
(***************************************************************************)
TheView(cat) == CHOOSE v \in ViewsNamed(cat, graph_name) : TRUE
Take(rows, n) == SubSeq(rows, 1, Min(n, Len(rows)))

Targets(v, e) == {r.dst : r \in {x \in v.relationships : x.src = e}}
Jaccard(v, e1, e2) ==
    Ratio(Cardinality(Targets(v, e1) \cap Targets(v, e2)),
          Cardinality(Targets(v, e1) \cup Targets(v, e2)))

\* ORDER BY similarity DESC
RECURSIVE BySimilarityDesc(_)
BySimilarityDesc(S) ==
    IF S = {} THEN <<>>
    ELSE LET m == CHOOSE x \in S : \A y \in S :
                      x.similarity.num * y.similarity.den
                          >= y.similarity.num * x.similarity.den
         IN  <<m>> \o BySimilarityDesc(S \ {m})

SimilarityRows(v) ==
    BySimilarityDesc(
        {[node1_id |-> p[1], node2_id |-> p[2], similarity |-> Jaccard(v, p[1], p[2])] :
            p \in {q \in v.sourceNodes \X v.sourceNodes :
                      /\ q[1] /= q[2]
                      /\ Targets(v, q[1]) \cap Targets(v, q[2]) /= {}}})

OutDegree(v, e) == Cardinality({r \in v.relationships : r.src = e})

\* a common multiple of the out-degrees, to keep the scores in integers
RECURSIVE DegreeProduct(_, _)
DegreeProduct(v, S) ==
    IF S = {} THEN 1
    ELSE LET e == CHOOSE x \in S : TRUE
         IN  (IF OutDegree(v, e) = 0 THEN 1 ELSE OutDegree(v, e))
                 * DegreeProduct(v, S \ {e})

RECURSIVE SumShares(_, _, _)
SumShares(v, R, F) ==
    IF R = {} THEN 0
    ELSE LET r == CHOOSE x \in R : TRUE
         IN  (F \div OutDegree(v, r.src)) + SumShares(v, R \ {r}, F)

\* gds.pageRank.stream with dampingFactor 0.85: a source entity has no
\* incoming relationship and scores 0.15; a property node scores
\* 0.15 + 0.85 * (sum over its holders of 0.15 / out-degree of the holder).
PropertyScore(v, p) ==
    LET F == DegreeProduct(v, v.sourceNodes)
    IN  Ratio(1500 * F + 85 * 15 * SumShares(v, {r \in v.relationships : r.dst = p}, F),
              10000 * F)

\* YIELD nodeId, score: one item per node of the view
PagerankStream(v) ==
    {[src |-> e, prop |-> {}, score |-> Ratio(15, 100)] : e \in v.sourceNodes}
        \cup {[src |-> 0, prop |-> {p}, score |-> PropertyScore(v, p)] :
                 p \in v.propertyNodes}

\* ORDER BY score DESC, equal scores in some order
RECURSIVE ByScoreDesc(_)
ByScoreDesc(S) ==
    IF S = {} THEN <<>>
    ELSE LET m == CHOOSE x \in S : \A y \in S :
                      x.score.num * y.score.den >= y.score.num * x.score.den
         IN  <<m>> \o ByScoreDesc(S \ {m})

\* RETURN node.id AS node_id, score (a property node has no id: 0)
AsRows(items) == [i \in DOMAIN items |-> [node_id |-> items[i].src, score |-> items[i].score]]

\* mutant: without WHERE source_label IN labels(node)
PagerankRows_unfiltered(v) == AsRows(ByScoreDesc(PagerankStream(v)))

\* WHERE source_label IN labels(node) ... ORDER BY score DESC
PagerankRows(v) ==
    AsRows(ByScoreDesc({x \in PagerankStream(v) : x.prop = {}}))

RECURSIVE Component(_, _)
Component(v, S) ==
    LET next == S \cup {e \in v.sourceNodes :
                           \E x \in S : Targets(v, x) \cap Targets(v, e) /= {}}
    IN  IF next = S THEN S ELSE Component(v, next)
communityId(v, e) ==
    CHOOSE c \in Component(v, {e}) : \A x \in Component(v, {e}) : c <= x

\* YIELD nodeId, communityId ... WHERE source_label IN labels(node) ...
\* ORDER BY communityId: one row per source entity of the view (the
\* entities are 1..n), rows of one community in some order
CommunityRows(v) ==
    SortSeq([e \in 1..Cardinality(v.sourceNodes) |->
                [node_id |-> e, communityId |-> communityId(v, e)]],
            LAMBDA x, y : x.communityId < y.communityId)

\* projection_manager.py run_node_similarity (top_k and similarity_cutoff at
\* their defaults, which cut nothing)
run_node_similarity(cat, refused) ==
    IF refused THEN Raised(ServiceUnavailable)
    ELSE IF ViewsNamed(cat, graph_name) = {} THEN Raised(GraphNotFound)
    ELSE Returned(Take(SimilarityRows(TheView(cat)), SimilarityLimit))

\* mutant: the request's errors swallowed into an empty result
run_pagerank_swallow(cat, refused) ==
    IF refused THEN Returned(<<>>)
    ELSE IF ViewsNamed(cat, graph_name) = {} THEN Returned(<<>>)
    ELSE Returned(Take(PagerankRows(TheView(cat)), PagerankLimit))

\* projection_manager.py run_pagerank
run_pagerank(cat, refused) ==
    IF refused THEN Raised(ServiceUnavailable)
    ELSE IF ViewsNamed(cat, graph_name) = {} THEN Raised(GraphNotFound)
    ELSE Returned(Take(PagerankRows(TheView(cat)), PagerankLimit))

algo_map   == {"louvain", "labelPropagation", "wcc"}
Algorithms == algo_map \cup {"kmeans"}

\* projection_manager.py run_community_detection
run_community_detection(cat, algorithm, refused) ==
    IF algorithm \notin algo_map THEN Raised(UnknownAlgorithm)
    ELSE IF refused THEN Raised(ServiceUnavailable)
    ELSE IF ViewsNamed(cat, graph_name) = {} THEN Raised(GraphNotFound)
    ELSE Returned(Take(CommunityRows(TheView(cat)), CommunityLimit))

RunNodeSimilarity ==
    \E refused \in BOOLEAN :
        /\ outcome' = run_node_similarity(catalog, refused)
        /\ op' = "run_node_similarity"
        /\ UNCHANGED <<source, pnodes, rels, properties_to_project, catalog,
                       runs, ratioVars, edaVars>>
        /\ ForgetWrites

RunPagerank ==
    \E refused \in BOOLEAN :
        /\ outcome' = run_pagerank(catalog, refused)
        /\ op' = "run_pagerank"
        /\ UNCHANGED <<source, pnodes, rels, properties_to_project, catalog,
                       runs, ratioVars, edaVars>>
        /\ ForgetWrites

RunCommunityDetection ==
    \E algorithm \in Algorithms, refused \in BOOLEAN :
        /\ outcome' = run_community_detection(catalog, algorithm, refused)
        /\ op' = "run_community_detection"
        /\ UNCHANGED <<source, pnodes, rels, properties_to_project, catalog,
                       runs, ratioVars, edaVars>>
        /\ ForgetWrites

\* what execute_query of RETURN gds.version() AS version may give: the
\* version row, a list without rows, or an exception (extension absent,
\* store unreachable)
ProbeAnswers == {"version", "no rows", "raises"}

\* projection_manager.py check_gds_available; the value is Some(boolean),
\* or None where the method ends without a return statement
check_gds_available(answer) ==
    IF answer = "raises" THEN Returned(Some(FALSE))     \* except Exception
    ELSE IF answer = "version" THEN Returned(Some(TRUE)) \* if result:
    ELSE Returned(None)

CheckGdsAvailable ==
    \E answer \in ProbeAnswers :
        /\ outcome' = check_gds_available(answer)
        /\ op' = "check_gds_available"
        /\ UNCHANGED <<source, pnodes, rels, properties_to_project, catalog,
                       runs, ratioVars, edaVars>>
        /\ ForgetWrites

NextView ==
    \/ CheckGdsAvailable
    \/ CreatePropertyNodes
    \/ DeletePropertyNodes
    \/ CreateGdsProjection
    \/ CreateCypherProjection
    \/ DropProjection
    \/ MatDropProjection
    \/ RunNodeSimilarity
    \/ RunPagerank
    \/ RunCommunityDetection
SpecView == InitView /\ [][NextView]_vars

Creations == {"create_gds_projection", "create_cypher_projection"}
Analytics == {"run_node_similarity", "run_pagerank", "run_community_detection"}

\* C5: creating the view first drops a view of the configured name and then
\* declares the new one: creation never fails because the name is
\* occupied, and when it returns exactly one view has the name and the
\* returned node and relationship counts are those of the new definition.
C5_ViewReplaced ==
    (op \in Creations) =>
        /\ outcome.error /= GraphExists
        /\ (outcome.kind = "returned") =>
              /\ Cardinality(ViewsNamed(catalog, graph_name)) = 1
              /\ TheView(catalog) =
                    (IF op = "create_gds_projection" THEN NativeView ELSE CypherView)
              /\ outcome.value.nodeCount = nodeCount(TheView(catalog))
              /\ outcome.value.relationshipCount = relationshipCount(TheView(catalog))

\* The errors of a request in general: those that are not the missing view.
GeneralErrors == {ServiceUnavailable, GraphExists, UnknownAlgorithm}

Drops == {"drop_projection", "mat_drop_projection"}

\* C11: a drop_projection step of either manager returns False exactly when
\* no view had the name, returns True exactly when it removed the view, and
\* otherwise raises the request's own error with the catalog untouched; a
\* view that existed is never answered with False.
C11_DropPolicy ==
    [][(op' \in Drops) =>
          IF ViewsNamed(catalog, graph_name) = {}
          THEN /\ catalog' = catalog
               /\ IF outcome'.kind = "returned"
                  THEN outcome'.value = FALSE
                  ELSE outcome' = Raised(ServiceUnavailable)
          ELSE IF outcome'.kind = "returned"
               THEN /\ outcome'.value = TRUE
                    /\ ViewsNamed(catalog', graph_name) = {}
               ELSE /\ outcome' = Raised(ServiceUnavailable)
                    /\ catalog' = catalog]_vars

\* every holder of attribute k is linked to the node of its value
MaterializedFor(k) ==
    \A e \in Entities :
        (source[e][k] /= Null) =>
            \E p \in NodesOf(k, source[e][k]) : Linked(e, p)

\* C12: a create_property_nodes call in which the write of one attribute
\* fails still processes the other attributes: after the call at most one
\* configured attribute is left unmaterialized, and the outcome carries the
\* counts of the attributes that succeeded.
C12_RemainingProcessed ==
    (op = "create_property_nodes") =>
        /\ Cardinality({k \in Configured : ~MaterializedFor(k)}) <= 1
        /\ outcome.value /= <<>>

\* the attributes some entity of the label holds
LabelKeys == {k \in Keys : \E r \in 1..Len(population) : population[r][k] /= Null}

\* C13: after an extract analysis of a non-empty selection, every attribute
\* of the label that no selected entity holds has a profile with
\* unique_values = 0, null_count = total_values, unique_ratio = 0 and type
\* HIGHLY_CATEGORICAL.
C13_AbsentAttribute ==
    (eda_op = "get_property_summary" /\ records /= {}) =>
        \A A \in LabelKeys :
            (\A r \in records : population[r][A] = Null) =>
                /\ A \in DOMAIN summary
                /\ summary[A].unique_values = 0
                /\ summary[A].null_count = summary[A].total_values
                /\ summary[A].total_values = Cardinality(records)
                /\ summary[A].unique_ratio = Ratio(0, Cardinality(records))
                /\ summary[A].type = HIGHLY_CATEGORICAL

(***************************************************************************)
(* SpecTop: both analyses over labels large enough for every type and for  *)
(* more distinct values than the top-values list holds.  A label is given  *)
(* by the number of holders of each value of "a" and the number of         *)
(* entities without "a"; every holder of "a" holds the same "b".           *)
(***************************************************************************)
MaxValues == 12
NullRows  == 30
HolderCounts == {1, 3}

ValueNames ==
    <<"v01", "v02", "v03", "v04", "v05", "v06", "v07", "v08",
      "v09", "v10", "v11", "v12", "v13", "v14", "v15", "v16">>
NamedValue(i) == [t |-> "str", s |-> ValueNames[i]]

RECURSIVE HolderRows(_, _)
HolderRows(counts, i) ==
    IF i > Len(counts) THEN <<>>
    ELSE [j \in 1..counts[i] |-> [a |-> NamedValue(i), b |-> Str2]]
             \o HolderRows(counts, i + 1)

InitTop ==
    /\ \E counts \in UNION {[1..n -> HolderCounts] : n \in 0..MaxValues},
          nulls \in {0, NullRows} :
          population = HolderRows(counts, 1)
                          \o [j \in 1..nulls |-> [a |-> Null, b |-> Null]]
    /\ limit = None /\ sample_size = None
    /\ total_count = 0 /\ query_shape = "" /\ records = {}
    /\ summary = EmptyTable /\ eda_op = "idle"
    /\ archive = None /\ loaded = None
    /\ discovery_limit = 0 /\ discovered_keys = {}
    /\ identifiers = NoSelection /\ categorical = NoSelection
    /\ RatioIdle /\ ProjIdle /\ LogIdle

NextTop == GetPropertySummaryAll \/ GetPropertySummaryFastAll
SpecTop == InitTop /\ [][NextTop]_vars

\* C14: in every profile of either strategy the top values are present
\* exactly for the types CATEGORICAL and HIGHLY_CATEGORICAL; when present
\* they are at most 10 distinct values with their true counts, listed by
\* non-increasing count, as many as there are values up to 10, and no
\* value left out occurs more often than a listed one.
C14_TopValues ==
    \A col \in DOMAIN summary :
        LET p      == summary[col]
            counts == ValueCounts(Considered, col)
        IN  /\ (p.sample_categorical_values /= None) <=> (p.type \in Categoricals)
            /\ (p.sample_categorical_values /= None) =>
                  LET top == ValueOf(p.sample_categorical_values)
                  IN  /\ Len(top) <= 10
                      /\ Len(top) = Min(10, Cardinality(DOMAIN counts))
                      /\ \A i \in 1..Len(top) :
                            /\ top[i].value \in DOMAIN counts
                            /\ top[i].count = counts[top[i].value]
                            /\ \A j \in (i + 1)..Len(top) :
                                  /\ top[i].count >= top[j].count
                                  /\ top[i].value /= top[j].value
                            /\ \A w \in (DOMAIN counts) \ {top[k].value : k \in 1..Len(top)} :
                                  counts[w] <= top[i].count

\* twelve values of unequal frequency, ten of them listed
C14_Witness ==
    /\ "a" \in DOMAIN summary
    /\ summary["a"].unique_values = 12
    /\ summary["a"].type = CATEGORICAL
    /\ Len(ValueOf(summary["a"].sample_categorical_values)) = 10
    /\ ValueOf(summary["a"].sample_categorical_values)[1].count = 3
    /\ ValueOf(summary["a"].sample_categorical_values)[10].count = 1

Summaries == {"get_property_summary", "get_property_summary_fast"}

\* C15: get_property_summary and get_property_summary_fast over a label
\* without entities, or over a selection without rows, end normally with
\* the empty classification table.
C15_EmptyIsEmpty ==
    (eda_op \in Summaries /\ Considered = {}) => summary = EmptyTable

\* the aggregate analysis of a label without entities
C15_Witness ==
    /\ eda_op = "get_property_summary_fast"
    /\ raised = NoError
    /\ population = <<>>
    /\ total_count = 0
    /\ summary = EmptyTable

\* C16: no profile is made of zero entities: every profile of either
\* operation has total_values > 0 and a unique_ratio that is a number,
\* never the outcome of 0 / 0, and so no type derived from such a ratio.
C16_NoRatioOfNothing ==
    \A col \in DOMAIN summary :
        /\ summary[col].total_values > 0
        /\ ~IsNaN(summary[col].unique_ratio)

(***************************************************************************)
(* SpecSave: the analyses of SpecEDA followed by save_analysis_results and *)
(* load_analysis_results of results_saver.py.  A dict is a sequence of     *)
(* [value, count] items in insertion order where the order matters (the    *)
(* top values) and a function otherwise.                                   *)
(***************************************************************************)
Label == "Node"

\* str(k) of a dict key
str(v) == [t |-> "str", s |-> v.s]

\* {str(k): convert(v) for k, v in obj.items()} over the top-values dict: a
\* key met again keeps its place and takes the later count
RECURSIVE ConvertItems(_, _, _)
ConvertItems(items, i, acc) ==
    IF i > Len(items) THEN acc
    ELSE LET k == str(items[i].value)
             c == items[i].count
         IN  ConvertItems(items, i + 1,
                 IF \E j \in DOMAIN acc : acc[j].value = k
                 THEN [j \in DOMAIN acc |->
                          IF acc[j].value = k THEN [value |-> k, count |-> c]
                          ELSE acc[j]]
                 ELSE Append(acc, [value |-> k, count |-> c]))

\* _convert_to_serializable of one profile: string keys, numbers, the type
\* name and None are left as they are and the top-values dict is rebuilt
ConvertProfile(p) ==
    [p EXCEPT !.sample_categorical_values =
        IF p.sample_categorical_values = None THEN None
        ELSE Some(ConvertItems(ValueOf(p.sample_categorical_values), 1, <<>>))]

\* results_saver.py _convert_to_serializable over {label: {attribute: profile}}
convert_to_serializable(results) ==
    [l \in DOMAIN results |->
        [a \in DOMAIN results[l] |-> ConvertProfile(results[l][a])]]

\* the {label: {attribute: profile}} table of the analysis made
Results == [l \in {Label} |-> summary]

\* save_analysis_results of the table of a summary made
SaveAnalysisResults ==
    /\ eda_op \in {"get_property_summary", "get_property_summary_fast"}
    /\ raised = NoError
    /\ archive = None
    /\ archive' = Some([metadata |-> [timestamp |-> "now", config |-> <<>>],
                        results  |-> convert_to_serializable(Results)])
    /\ UNCHANGED <<population, discovery_limit, discovered_keys,
                       identifiers, categorical,
                       limit, sample_size, total_count, query_shape,
                   records, summary, eda_op, loaded, ratioVars, projVars, logVars>>

\* json.load of what json.dump wrote
LoadAnalysisResults ==
    /\ archive /= None
    /\ loaded = None
    /\ loaded' = archive
    /\ UNCHANGED <<population, discovery_limit, discovered_keys,
                       identifiers, categorical,
                       limit, sample_size, total_count, query_shape,
                   records, summary, eda_op, archive, ratioVars, projVars, logVars>>

NextSave == NextEDA \/ SaveAnalysisResults \/ LoadAnalysisResults
SpecSave == InitEDA /\ [][NextSave]_vars

\* == of two floats: a NaN equals nothing
FloatEq(x, y) == ~IsNaN(x) /\ ~IsNaN(y) /\ x.num * y.den = y.num * x.den
\* == of two dicts given by their items
ItemsEq(x, y) ==
    {<<x[i].value, x[i].count>> : i \in DOMAIN x}
        = {<<y[i].value, y[i].count>> : i \in DOMAIN y}
ProfileEq(p, q) ==
    /\ p.unique_values = q.unique_values
    /\ p.total_values = q.total_values
    /\ p.null_count = q.null_count
    /\ p.type = q.type
    /\ FloatEq(p.unique_ratio, q.unique_ratio)
    /\ (p.sample_categorical_values = None) <=> (q.sample_categorical_values = None)
    /\ (p.sample_categorical_values /= None) =>
          ItemsEq(ValueOf(p.sample_categorical_values),
                  ValueOf(q.sample_categorical_values))
TableEq(x, y) ==
    /\ DOMAIN x = DOMAIN y
    /\ \A l \in DOMAIN x :
          /\ DOMAIN x[l] = DOMAIN y[l]
          /\ \A a \in DOMAIN x[l] : ProfileEq(x[l][a], y[l][a])

\* C17: loading the file that save_analysis_results wrote gives back under
\* 'results' a table equal to the one saved, label by label, attribute by
\* attribute, profile by profile, top values with their keys and counts
\* included, whatever the order of keys.
C17_RoundTrip ==
    (loaded /= None) => TableEq(ValueOf(loaded).results, Results)

\* agreement of two profiles on the counts and the type
Agree(p, q) ==
    /\ p.total_values = q.total_values
    /\ p.unique_values = q.unique_values
    /\ p.null_count = q.null_count
    /\ p.type = q.type

\* C18: over the entire population the two strategies give the same
\* total_values, unique_values, null_count and type for every attribute
\* both profile: an extract summary of the whole label agrees with the
\* aggregate profile of each of its attributes, and an aggregate summary
\* with the profile the extract analysis of the whole label gives.
C18_StrategiesAgree ==
    LET all == 1..Len(population)
    IN  /\ (eda_op = "get_property_summary" /\ records = all) =>
              \A k \in (DOMAIN summary) \cap Keys :
                  Agree(summary[k], get_property_stats_cypher(k))
        /\ (eda_op = "get_property_summary_fast") =>
              \A k \in (DOMAIN summary) \cap DOMAIN analyze_dataframe(all) :
                  Agree(summary[k], analyze_dataframe(all)[k])

\* an extract summary without limit or sample whose "a" has nulls and a
\* value held twice
C18_Witness ==
    /\ eda_op = "get_property_summary"
    /\ limit = None /\ sample_size = None
    /\ records = 1..Len(population)
    /\ "a" \in DOMAIN summary
    /\ summary["a"].null_count = 1
    /\ summary["a"].unique_values = 1
    /\ summary["a"].total_values = 3
    /\ summary["a"].type = CATEGORICAL

\* C19: the rows run_pagerank returns are rows of source entities of the
\* view only, each entity at most once, never a property node, listed by
\* non-increasing score, at most 100.
C19_SourceRowsByScore ==
    (op = "run_pagerank" /\ outcome.kind = "returned") =>
        LET rows == outcome.value
        IN  /\ Len(rows) <= PagerankLimit
            /\ \A i \in 1..Len(rows) :
                  /\ rows[i].node_id \in TheView(catalog).sourceNodes
                  /\ \A j \in (i + 1)..Len(rows) :
                        /\ rows[i].node_id /= rows[j].node_id
                        /\ rows[i].score.num * rows[j].score.den
                               >= rows[j].score.num * rows[i].score.den

\* a ranking over a view that holds property nodes of higher score
C19_Witness ==
    /\ op = "run_pagerank" /\ outcome.kind = "returned"
    /\ Len(outcome.value) = NumEntities
    /\ \E p \in TheView(catalog).propertyNodes :
          LET sc == PropertyScore(TheView(catalog), p)
          IN  100 * sc.num > 15 * sc.den

(***************************************************************************)
(* SpecLarge: the view over a label of about CommunityLimit entities, none *)
(* of which holds a configured attribute, and the grouping request on it.  *)
(***************************************************************************)
LargeSlack == 3

InitLarge ==
    /\ \E n \in (0..LargeSlack) \cup {CommunityLimit + 1} :
          source = [e \in 1..n |-> [k \in Keys |-> Null]]
    /\ pnodes = {}
    /\ rels = {}
    /\ properties_to_project \in Configs
    /\ catalog = {}
    /\ op = "idle" /\ outcome = NoOutcome /\ runs = 0
    /\ RatioIdle /\ EdaIdle /\ LogIdle

NextLarge == CreateGdsProjection \/ DropProjection \/ RunCommunityDetection
SpecLarge == InitLarge /\ [][NextLarge]_vars

\* example_materialized.py: communities[comm_id] = communities.get(comm_id, 0) + 1
GroupSizes(rows) ==
    [c \in {rows[i].communityId : i \in DOMAIN rows} |->
        Cardinality({i \in DOMAIN rows : rows[i].communityId = c})]

\* C20: run_community_detection returns exactly one row for each source
\* entity of the view and none for a property node, so that counting the
\* rows per communityId gives every group's number of source entities.
C20_OneRowPerEntity ==
    (op = "run_community_detection" /\ outcome.kind = "returned") =>
        LET rows == outcome.value
            v    == TheView(catalog)
        IN  /\ {rows[i].node_id : i \in DOMAIN rows} = v.sourceNodes
            /\ Len(rows) = Cardinality(v.sourceNodes)
            /\ \A c \in DOMAIN GroupSizes(rows) :
                  GroupSizes(rows)[c] =
                      Cardinality({e \in v.sourceNodes : communityId(v, e) = c})

\* C21: check_gds_available never raises and its value is a boolean, True
\* or False.
C21_ProbeIsBoolean ==
    (op = "check_gds_available") =>
        /\ outcome.kind = "returned"
        /\ outcome.value \in {Some(TRUE), Some(FALSE)}

\* C22: create_property_nodes(batch_size) that returned issued, for each
\* configured attribute, as many write requests as batches of at most
\* batch_size entities are needed to cover the entities holding the
\* attribute, and no request covers more than batch_size entities.
C22_WritesPerBatch ==
    (op = "create_property_nodes" /\ outcome.kind = "returned") =>
        /\ \A i \in 1..Len(requests) :
               Cardinality(requests[i].entities) <= batch_size
        /\ \A j \in 1..Len(properties_to_project) :
               LET k == properties_to_project[j]
               IN  Cardinality({i \in 1..Len(requests) : requests[i].key = k})
                   = (Cardinality(Matched(k)) + batch_size - 1) \div batch_size

\* The requests of the last operation about attribute k, in issue order.
RequestsFor(k) == SelectSeq(requests, LAMBDA r : r.key = k)

\* C23: for each attribute, get_property_stats_cypher issues exactly one
\* counting request, first, and a second request, for the top values, if
\* and only if the type the counts yield is CATEGORICAL or
\* HIGHLY_CATEGORICAL; it issues no third request.
C23_StatsThenTopValues ==
    (eda_op \in {"get_property_stats_cypher", "get_property_summary_fast"}) =>
        /\ \A k \in DOMAIN summary : RequestsFor(k) /= <<>>
        /\ \A k \in Keys :
              LET q == RequestsFor(k)
                  answered == ~(/\ raised /= NoError
                                /\ requests[Len(requests)] =
                                       [kind |-> "stats", key |-> k])
              IN  (q /= <<>>) =>
                     /\ q[1].kind = "stats"
                     /\ Len(q) <= 2
                     /\ (Len(q) = 2) => (q[2].kind = "top_values")
                     /\ (Len(q) = 2) <=>
                            /\ answered
                            /\ get_property_stats_cypher(k).type \in Categoricals

\* a categorical attribute profiled with the two requests
C23_Witness ==
    /\ eda_op = "get_property_stats_cypher"
    /\ raised = NoError
    /\ "a" \in DOMAIN summary
    /\ summary["a"].type = CATEGORICAL
    /\ requests = << [kind |-> "stats", key |-> "a"],
                     [kind |-> "top_values", key |-> "a"] >>

\* The property nodes of attribute k that hold the text of the value of
\* some entity, and the relationships from an entity to the node of its
\* value: what the write request of k matches or creates.
TouchedNodes(nodes, k) ==
    {p \in nodes : /\ p.name = k
                   /\ \E e \in Matched(k) : p.value = toString(source[e][k])}
TouchedLinks(nodes, edges, k) ==
    {r \in edges : /\ r.src \in Matched(k)
                   /\ r.dst \in TouchedNodes(nodes, k)
                   /\ r.dst.value = toString(source[r.src][k])}

RECURSIVE SumOverConfig(_, _)
SumOverConfig(count, i) ==
    IF i > Len(properties_to_project) THEN 0
    ELSE count[properties_to_project[i]] + SumOverConfig(count, i + 1)

KeysAnswered ==
    /\ eda_op \in {"get_property_keys", "get_property_summary_fast"}
    /\ raised = NoError \/ Len(requests) > 1

\* C25: the keys get_property_keys returns are a lower bound: each is held
\* by some entity of the label, and every key held by one of the
\* sample_limit entities the store inspected is among them (a key held
\* only by other entities may be missing); get_property_summary_fast
\* has profiles for the discovered keys only.
C25_KeysLowerBound ==
    /\ KeysAnswered =>
          /\ discovered_keys \subseteq KeysHeld(1..Len(population))
          /\ \E R \in Prefixes(discovery_limit) :
                KeysHeld(R) \subseteq discovered_keys
    /\ (eda_op = "get_property_summary_fast" /\ raised = NoError) =>
          DOMAIN summary = discovered_keys

\* a discovery over one entity of several that misses a key of the label
C25_Witness ==
    /\ eda_op = "get_property_keys" /\ raised = NoError
    /\ discovery_limit = 1
    /\ discovered_keys = {"a"}
    /\ \E r \in 1..Len(population) : population[r]["b"] /= Null

\* the last operation extracted a table and returned
Extracted ==
    /\ eda_op \in {"extract_nodes_to_dataframe", "get_property_summary"}
    /\ raised = NoError

\* C26: a hard limit L >= 0 given without a sample size extracts exactly
\* min(L, total_count) rows, and a sample size S >= 0 extracts exactly
\* min(S, total_count) rows; a limit or sample size of 0 extracts no rows.
C26_RowCount ==
    Extracted =>
        /\ (sample_size = None /\ limit /= None) =>
              Cardinality(records) = Min(ValueOf(limit), total_count)
        /\ (sample_size /= None) =>
              Cardinality(records) = Min(ValueOf(sample_size), total_count)

\* C27: the table get_property_summary returns has exactly one profile for
\* each attribute name held by at least one extracted entity and no other
\* key.
C27_ProfiledKeys ==
    (eda_op = "get_property_summary" /\ raised = NoError) =>
        DOMAIN summary = KeysHeld(records)

\* C28: create_property_nodes only adds: every step of it, returning or
\* raising, leaves the entities and their attributes as they were and
\* keeps every property node and every HAS relationship there was.
C28_OnlyAdds ==
    [][(op' = "create_property_nodes") =>
          /\ source' = source
          /\ pnodes \subseteq pnodes'
          /\ rels \subseteq rels']_vars

\* a run returned and an entity that gave up a configured attribute is
\* still linked to the node of the value it held
C28_Witness ==
    /\ op = "create_property_nodes" /\ outcome.kind = "returned"
    /\ \E r \in rels :
          /\ r.dst.name \in Configured
          /\ source[r.src][r.dst.name] = Null

\* the operations of Neo4jPropertyAnalyzer that the monitor times
AnalyzerOperations ==
    {"get_node_labels", "get_node_count", "extract_nodes_to_dataframe",
     "get_property_summary", "get_property_summary_fast"}

\* C29: with performance tracking enabled, when an analyzer operation has
\* returned or raised, every metric started during it has been stopped,
\* a store request failing inside it or not.
C29_MetricsStopped ==
    (enabled /\ eda_op \in AnalyzerOperations) =>
        \A i \in 1..Len(metrics) : metrics[i].stopped

(***************************************************************************)
(* SpecSelect: the two selectors of results_saver.py applied to every      *)
(* table of typed profiles over the attribute names.                       *)
(***************************************************************************)
\* the tables of one label whose profiles carry one of the four types
TypedTables ==
    UNION {[K -> {[type |-> T] : T \in PropertyType}] : K \in SUBSET Keys}

\* the labels asked for: the one in the table and one that is not
NodeLabels == {Label, "Other"}

\* mutant: SEMI_UNIQUE attributes are never identifiers
get_identifiers_unique(results, node_label, include_semi_unique) ==
    IF node_label \notin DOMAIN results THEN {<<>>}
    ELSE LET properties == results[node_label]
         IN  {SelectSeq(order, LAMBDA prop_name :
                  properties[prop_name].type = UNIQUE) :
                order \in Orders(DOMAIN properties)}

\* results_saver.py get_identifiers: the list for each order in which
\* properties.items() may list the attributes
get_identifiers(results, node_label, include_semi_unique) ==
    IF node_label \notin DOMAIN results THEN {<<>>}
    ELSE LET properties == results[node_label]
         IN  {SelectSeq(order, LAMBDA prop_name :
                  \/ properties[prop_name].type = UNIQUE
                  \/ /\ include_semi_unique
                     /\ properties[prop_name].type = SEMI_UNIQUE) :
                order \in Orders(DOMAIN properties)}

\* results_saver.py get_categorical_properties
get_categorical_properties(results, node_label, include_highly_categorical) ==
    IF node_label \notin DOMAIN results THEN {<<>>}
    ELSE LET properties == results[node_label]
         IN  {SelectSeq(order, LAMBDA prop_name :
                  \/ properties[prop_name].type = CATEGORICAL
                  \/ /\ include_highly_categorical
                     /\ properties[prop_name].type = HIGHLY_CATEGORICAL) :
                order \in Orders(DOMAIN properties)}

InitSelect ==
    /\ summary \in TypedTables
    /\ population = <<>> /\ limit = None /\ sample_size = None
    /\ total_count = 0 /\ query_shape = "" /\ records = {}
    /\ eda_op = "idle"
    /\ archive = None /\ loaded = None
    /\ discovery_limit = 0 /\ discovered_keys = {}
    /\ identifiers = NoSelection /\ categorical = NoSelection
    /\ RatioIdle /\ ProjIdle /\ LogIdle

GetIdentifiers ==
    \E node_label \in NodeLabels, include_semi_unique \in BOOLEAN :
      \E list \in get_identifiers(Results, node_label, include_semi_unique) :
        /\ identifiers' = [node_label |-> node_label,
                           flag |-> include_semi_unique, value |-> list]
        /\ UNCHANGED <<population, limit, sample_size, total_count,
                       query_shape, records, summary, eda_op, archive, loaded,
                       discovery_limit, discovered_keys, categorical,
                       ratioVars, projVars, logVars>>

GetCategoricalProperties ==
    \E node_label \in NodeLabels, include_highly_categorical \in BOOLEAN :
      \E list \in get_categorical_properties(Results, node_label,
                                             include_highly_categorical) :
        /\ categorical' = [node_label |-> node_label,
                           flag |-> include_highly_categorical, value |-> list]
        /\ UNCHANGED <<population, limit, sample_size, total_count,
                       query_shape, records, summary, eda_op, archive, loaded,
                       discovery_limit, discovered_keys, identifiers,
                       ratioVars, projVars, logVars>>

NextSelect == GetIdentifiers \/ GetCategoricalProperties
SpecSelect == InitSelect /\ [][NextSelect]_vars

\* the names in a list, and the attributes of the table with a type in T
Listed(sel) == {sel.value[i] : i \in 1..Len(sel.value)}
OfType(T) == {k \in DOMAIN summary : summary[k].type \in T}

\* C30: over a table of typed profiles, get_identifiers returns the UNIQUE
\* attributes, with the SEMI_UNIQUE ones when include_semi_unique, and
\* get_categorical_properties the CATEGORICAL attributes, with the
\* HIGHLY_CATEGORICAL ones when include_highly_categorical, each once;
\* with both flags set the two lists partition the label's attributes; for
\* a label not in the table both lists are empty.
C30_SelectorsPartition ==
    /\ (identifiers.node_label = Label) =>
          /\ Listed(identifiers) =
                OfType(IF identifiers.flag THEN {UNIQUE, SEMI_UNIQUE}
                       ELSE {UNIQUE})
          /\ Len(identifiers.value) = Cardinality(Listed(identifiers))
    /\ (categorical.node_label = Label) =>
          /\ Listed(categorical) =
                OfType(IF categorical.flag THEN {CATEGORICAL, HIGHLY_CATEGORICAL}
                       ELSE {CATEGORICAL})
          /\ Len(categorical.value) = Cardinality(Listed(categorical))
    /\ (/\ identifiers.node_label = Label /\ identifiers.flag
        /\ categorical.node_label = Label /\ categorical.flag) =>
          /\ Listed(identifiers) \cap Listed(categorical) = {}
          /\ Listed(identifiers) \cup Listed(categorical) = DOMAIN summary
    /\ (identifiers.node_label \notin {"", Label}) => identifiers.value = <<>>
    /\ (categorical.node_label \notin {"", Label}) => categorical.value = <<>>

\* both selectors with their flags set split a table of a SEMI_UNIQUE and
\* a HIGHLY_CATEGORICAL attribute
C30_Witness ==
    /\ identifiers = [node_label |-> Label, flag |-> TRUE, value |-> <<"a">>]
    /\ categorical = [node_label |-> Label, flag |-> TRUE, value |-> <<"b">>]
    /\ summary["a"].type = SEMI_UNIQUE
    /\ summary["b"].type = HIGHLY_CATEGORICAL
====
